---- MODULE Spec2Model ----
(***************************************************************************)
(* The startup orchestrator of the trading platform:                       *)
(* core/service_initializer.py, ServiceInitializer.                        *)
(*                                                                         *)
(* A run of initialize_all_services is a small program counter machine:    *)
(*   idle -> [db_await ->] loop <-> (readiness ->) handle                  *)
(*        -> register_connections -> mark_initialized -> returned          *)
(* and "raised" when an exception leaves initialize_all_services.          *)
(* The service registry (core/service_registry.py) and the resource        *)
(* provider (core/database_manager.py) are collaborators whose code is not *)
(* part of the sources; they are modelled from their documented contract.  *)
(***************************************************************************)
EXTENDS Naturals, Sequences, FiniteSets, TLC

\* Bounds of the model.
MaxRuns == 2        \* calls of initialize_all_services, one after the other
MaxFailures == 2    \* exceptions the collaborators raise over the whole behaviour

Runs == 1..MaxRuns

(***************************************************************************)
(* The tables of ServiceInitializer.                                       *)
(***************************************************************************)
\* Mutant of initialization_order: risk_management moved ahead of the
\* portfolio tracker it reads.
initialization_order_risk_first ==
    << "market_data", "historical_data",
       "risk_management", "portfolio_tracker", "trading_engine", "order_management",
       "ai_prediction", "technical_analysis", "sentiment_analysis", "ml_portfolio_optimizer",
       "execution_specialist", "hyperliquid_execution", "agent_management",
       "strategy_config", "watchlist", "user_preference",
       "crew_trading_analysis", "autogen_trading_system" >>

initialization_order ==
    << "market_data", "historical_data",
       "portfolio_tracker", "trading_engine", "order_management", "risk_management",
       "ai_prediction", "technical_analysis", "sentiment_analysis", "ml_portfolio_optimizer",
       "execution_specialist", "hyperliquid_execution", "agent_management",
       "strategy_config", "watchlist", "user_preference",
       "crew_trading_analysis", "autogen_trading_system" >>

OrderLen == Len(initialization_order)

OrderNames == {initialization_order[k] : k \in 1..OrderLen}

\* The names at positions 1..k of the order.
Prefix(k) == {initialization_order[j] : j \in 1..k}

\* The names the if/elif chain of _initialize_service compares service_name
\* with, in the order of the chain.
Branches ==
    << "market_data", "historical_data", "portfolio_tracker", "trading_engine",
       "order_management", "risk_management", "ai_prediction", "technical_analysis",
       "sentiment_analysis", "ml_portfolio_optimizer", "execution_specialist",
       "hyperliquid_execution", "agent_management", "strategy_config", "watchlist",
       "user_preference", "crew_trading_analysis", "autogen_trading_system" >>

\* Mutant of FactoryNames: the branch of watchlist is missing.
FactoryNames_without_watchlist ==
    { "market_data", "historical_data", "portfolio_tracker", "trading_engine",
      "order_management", "risk_management", "ai_prediction", "technical_analysis",
      "sentiment_analysis", "ml_portfolio_optimizer", "execution_specialist",
      "hyperliquid_execution", "agent_management", "strategy_config",
      "user_preference", "crew_trading_analysis", "autogen_trading_system" }

\* The names that have a branch in _initialize_service.
FactoryNames ==
    { "market_data", "historical_data", "portfolio_tracker", "trading_engine",
      "order_management", "risk_management", "ai_prediction", "technical_analysis",
      "sentiment_analysis", "ml_portfolio_optimizer", "execution_specialist",
      "hyperliquid_execution", "agent_management", "strategy_config", "watchlist",
      "user_preference", "crew_trading_analysis", "autogen_trading_system" }

\* registry.get_service(D) calls made by the branch of a name.
RegistryLookups(name) ==
    CASE name = "portfolio_tracker" -> {"market_data"}
      [] name = "trading_engine"    -> {"market_data"}
      [] name = "risk_management"   -> {"portfolio_tracker"}
      [] OTHER                      -> {}

\* The branches that read a handle from db_manager.
NeedsResource(name) ==
    name \in { "market_data", "historical_data", "portfolio_tracker", "order_management",
               "agent_management", "strategy_config", "watchlist", "user_preference" }

\* The branches that call a constructor; the two agent frameworks are
\* module-level objects that are only registered.
CallsConstructor(name) ==
    name \notin {"crew_trading_analysis", "autogen_trading_system"}

\* The branch with an awaited readiness step.
HasReadinessStep(name) == name = "agent_management"

\* The keys of the dependencies dict of get_service_dependencies.
DependencyKeys ==
    { "market_data", "historical_data", "portfolio_tracker", "trading_engine",
      "order_management", "risk_management", "ai_prediction", "technical_analysis",
      "sentiment_analysis", "ml_portfolio_optimizer", "execution_specialist",
      "hyperliquid_execution", "agent_management", "strategy_config", "watchlist",
      "user_preference", "crew_trading_analysis", "autogen_trading_system" }

dependencies ==
    [ name \in DependencyKeys |->
        CASE name = "portfolio_tracker" -> <<"market_data">>
          [] name = "trading_engine"    -> <<"market_data">>
          [] name = "risk_management"   -> <<"portfolio_tracker">>
          [] OTHER                      -> << >> ]

\* dependencies.get(service_name, [])
get_service_dependencies(service_name) ==
    IF service_name \in DOMAIN dependencies THEN dependencies[service_name] ELSE << >>

\* Mutants of IsCritical: a critical name left out of the list; every name
\* treated as critical.
IsCritical_without_portfolio_tracker(service_name) ==
    service_name \in {"market_data", "trading_engine"}

IsCritical_every_name(service_name) == TRUE

\* The critical services of the except handler.
IsCritical(service_name) ==
    service_name \in {"market_data", "trading_engine", "portfolio_tracker"}

\* Mutant of StandardConnections: one register_connection call left out.
StandardConnections_without_async_redis ==
    {"supabase", "redis", "database_engine", "session_factory"}

\* The names _register_connections registers.
StandardConnections ==
    {"supabase", "redis", "async_redis", "database_engine", "session_factory"}

(***************************************************************************)
(* Exceptions and report values.                                           *)
(***************************************************************************)
Exceptions ==
    {"ConnectionError", "NotInitializedError", "ServiceNotFoundError",
     "ConstructionError", "ReadinessError", "ValueError"}

\* f"failed: {str(e)}"
FailedMessage(e) ==
    CASE e = "ConnectionError"      -> "failed: ConnectionError"
      [] e = "NotInitializedError"  -> "failed: NotInitializedError"
      [] e = "ServiceNotFoundError" -> "failed: ServiceNotFoundError"
      [] e = "ConstructionError"    -> "failed: ConstructionError"
      [] e = "ReadinessError"       -> "failed: ReadinessError"
      [] OTHER                      -> "failed: ValueError"

FailedValues == {FailedMessage(e) : e \in Exceptions}

\* An empty dict, and d[k] = v.
EmptyDict == [k \in {} |-> "initialized"]

Put(d, k, v) == [x \in (DOMAIN d) \cup {k} |-> IF x = k THEN v ELSE d[x]]

VARIABLES
    db_initialized,  \* db_manager.is_initialized()
    services,        \* registry: name -> the run that built the instance, 0 = absent
    connections,     \* registry: the connection names registered
    initialized,     \* registry.is_initialized()
    pc,              \* per run: where the call of initialize_all_services is
    i,               \* per run: position of service_name in initialization_order
    results,         \* per run: the results dict
    outcome,         \* per run: what _initialize_service returned or raised,
                     \*          or the exception that left initialize_all_services
    failures,        \* exceptions raised by the collaborators so far
    order,           \* self.initialization_order
    dep_call         \* the call of get_service_dependencies in progress

vars == <<db_initialized, services, connections, initialized, pc, i, results, outcome, failures,
          order, dep_call>>

\* No call of get_service_dependencies is in progress.
NoCall == [name |-> "none", result |-> << >>, raised |-> "none"]

(***************************************************************************)
(* Service registry and resource provider.                                 *)
(***************************************************************************)
register_service(svcs, name, instance) == [svcs EXCEPT ![name] = instance]

has_service(svcs, name) == svcs[name] # 0

\* The registry, the provider and the calls before anything ran.
Fresh ==
    /\ db_initialized = FALSE
    /\ services = [name \in FactoryNames |-> 0]
    /\ connections = {}
    /\ initialized = FALSE
    /\ pc = [r \in Runs |-> "idle"]
    /\ i = [r \in Runs |-> 0]
    /\ results = [r \in Runs |-> EmptyDict]
    /\ outcome = [r \in Runs |-> "none"]
    /\ failures = 0
    /\ dep_call = NoCall

\* ServiceInitializer(): the order is the list of __init__.
Init ==
    /\ Fresh
    /\ order = initialization_order

Finished(r) == pc[r] \in {"returned", "raised"}

\* Whether a collaborator may still raise.
MayFail == failures < MaxFailures

(***************************************************************************)
(* initialize_all_services, step by step.                                  *)
(***************************************************************************)
\* Mutant of Continue: the loop stops one name early.
Continue_stops_early(k) == IF k + 1 >= Len(order) THEN "register_connections" ELSE "loop"

\* Control after the attempt at position k: the next name, or the end of the loop.
Continue(k) == IF k + 1 > Len(order) THEN "register_connections" ELSE "loop"

\* Mutant of initialize_all_services: the is_initialized() test is dropped,
\* the connections are initialized on every call.
initialize_all_services_always_connects(r) ==
    /\ pc[r] = "idle"
    /\ pc' = [pc EXCEPT ![r] = "db_await"]
    /\ UNCHANGED <<db_initialized, services, connections, initialized, i, results, outcome, failures>>

\* Mutant of ConnectionsCall: the provider does not serialize its callers,
\* every caller establishes the connections.
ConnectionsCall_unguarded == "db_await"

\* db_manager.initialize_connections() is entered: the first caller
\* establishes the connections, a caller that finds an establishment under
\* way waits for it.
ConnectionsCall ==
    IF \E q \in Runs : pc[q] = "db_await" THEN "db_wait" ELSE "db_await"

\* Mutant of initialize_all_services: registry.mark_initialized() is called
\* on entry instead of after the loop.
initialize_all_services_marks_early(r) ==
    /\ pc[r] = "idle"
    /\ IF ~db_initialized
         THEN /\ pc' = [pc EXCEPT ![r] = "db_await"]
              /\ UNCHANGED <<i, results>>
         ELSE /\ pc' = [pc EXCEPT ![r] = "loop"]
              /\ i' = [i EXCEPT ![r] = 1]
              /\ results' = [results EXCEPT ![r] = EmptyDict]
    /\ initialized' = TRUE
    /\ UNCHANGED <<db_initialized, services, connections, outcome, failures>>

\* Entry: the provider is initialized only when it is not yet; otherwise
\* results = {} and the loop starts.
initialize_all_services(r) ==
    /\ pc[r] = "idle"
    /\ IF ~db_initialized
         THEN /\ pc' = [pc EXCEPT ![r] = ConnectionsCall]
              /\ UNCHANGED <<i, results>>
         ELSE /\ pc' = [pc EXCEPT ![r] = "loop"]
              /\ i' = [i EXCEPT ![r] = 1]
              /\ results' = [results EXCEPT ![r] = EmptyDict]
    /\ UNCHANGED <<db_initialized, services, connections, initialized, outcome, failures>>

\* await db_manager.initialize_connections(): establishes the connections,
\* after which results = {} and the loop starts, or raises ConnectionError,
\* which leaves initialize_all_services.
initialize_connections(r) ==
    /\ pc[r] = "db_await"
    /\ \E ok \in BOOLEAN :
         IF ok
           THEN /\ db_initialized' = TRUE
                /\ pc' = [pc EXCEPT ![r] = "loop"]
                /\ i' = [i EXCEPT ![r] = 1]
                /\ results' = [results EXCEPT ![r] = EmptyDict]
                /\ UNCHANGED <<outcome, failures>>
           ELSE /\ MayFail
                /\ failures' = failures + 1
                /\ pc' = [pc EXCEPT ![r] = "raised"]
                /\ outcome' = [outcome EXCEPT ![r] = "ConnectionError"]
                /\ UNCHANGED <<db_initialized, i, results>>
    /\ UNCHANGED <<services, connections, initialized>>

\* A caller waiting inside initialize_connections goes on when the first
\* caller is done: it observes the established connections and returns, or,
\* the first caller having failed, establishes them itself.
connections_observed(r) ==
    /\ pc[r] = "db_wait"
    /\ ~\E q \in Runs : pc[q] = "db_await"
    /\ IF db_initialized
         THEN /\ pc' = [pc EXCEPT ![r] = "loop"]
              /\ i' = [i EXCEPT ![r] = 1]
              /\ results' = [results EXCEPT ![r] = EmptyDict]
         ELSE /\ pc' = [pc EXCEPT ![r] = "db_await"]
              /\ UNCHANGED <<i, results>>
    /\ UNCHANGED <<db_initialized, services, connections, initialized, outcome, failures>>

\* What the branch of service_name does up to the end of the constructor call:
\* the arguments are evaluated first (db_manager accessor, then get_service),
\* then the constructor runs and returns (ok) or raises.
Construct(service_name, ok) ==
    IF service_name \notin FactoryNames THEN "ValueError"
    ELSE IF NeedsResource(service_name) /\ ~db_initialized THEN "NotInitializedError"
    ELSE IF \E d \in RegistryLookups(service_name) : ~has_service(services, d)
      THEN "ServiceNotFoundError"
    ELSE IF CallsConstructor(service_name) /\ ~ok THEN "ConstructionError"
    ELSE "constructed"

\* Mutant of Constructed: the readiness step is started but not awaited, the
\* branch returns "initialized" and leaves the registration to the step.
Constructed_not_awaited(r, service_name) ==
    IF HasReadinessStep(service_name)
      THEN /\ outcome' = [outcome EXCEPT ![r] = "initialized"]
           /\ pc' = [pc EXCEPT ![r] = "handle"]
           /\ UNCHANGED services
      ELSE /\ services' = register_service(services, service_name, r)
           /\ outcome' = [outcome EXCEPT ![r] = "initialized"]
           /\ pc' = [pc EXCEPT ![r] = "handle"]

\* Mutant of Constructed: the service is registered before its readiness
\* step is awaited.
Constructed_registered_first(r, service_name) ==
    IF HasReadinessStep(service_name)
      THEN /\ services' = register_service(services, service_name, r)
           /\ pc' = [pc EXCEPT ![r] = "readiness"]
           /\ UNCHANGED outcome
      ELSE /\ services' = register_service(services, service_name, r)
           /\ outcome' = [outcome EXCEPT ![r] = "initialized"]
           /\ pc' = [pc EXCEPT ![r] = "handle"]

\* After the constructor returned: the readiness step is awaited before the
\* service is registered; a service without one is registered and
\* "initialized" is returned.
Constructed(r, service_name) ==
    IF HasReadinessStep(service_name)
      THEN /\ pc' = [pc EXCEPT ![r] = "readiness"]
           /\ UNCHANGED <<outcome, services>>
      ELSE /\ services' = register_service(services, service_name, r)
           /\ outcome' = [outcome EXCEPT ![r] = "initialized"]
           /\ pc' = [pc EXCEPT ![r] = "handle"]

\* await self._initialize_service(service_name), up to its return, its raise,
\* or the await of the readiness step.
initialize_service(r) ==
    /\ pc[r] = "loop"
    /\ LET service_name == order[i[r]] IN
       \E ok \in BOOLEAN :
         /\ ~ok => /\ MayFail
                   /\ CallsConstructor(service_name)
                   /\ Construct(service_name, TRUE) = "constructed"
         /\ failures' = IF ok THEN failures ELSE failures + 1
         /\ LET c == Construct(service_name, ok) IN
            IF c # "constructed"
              THEN /\ outcome' = [outcome EXCEPT ![r] = c]
                   /\ pc' = [pc EXCEPT ![r] = "handle"]
                   /\ UNCHANGED services
              ELSE Constructed(r, service_name)
    /\ UNCHANGED <<db_initialized, connections, initialized, i, results>>

\* await service.load_all_agent_statuses_from_db() completes: the service is
\* registered and "initialized" returned, or the step raises.
load_all_agent_statuses_from_db(r) ==
    /\ pc[r] = "readiness"
    /\ LET service_name == order[i[r]] IN
       \E ok \in BOOLEAN :
         IF ok
           THEN /\ services' = register_service(services, service_name, r)
                /\ outcome' = [outcome EXCEPT ![r] = "initialized"]
                /\ UNCHANGED failures
           ELSE /\ MayFail
                /\ failures' = failures + 1
                /\ outcome' = [outcome EXCEPT ![r] = "ReadinessError"]
                /\ UNCHANGED services
    /\ pc' = [pc EXCEPT ![r] = "handle"]
    /\ UNCHANGED <<db_initialized, connections, initialized, i, results>>

\* The for loop goes on with the next name.
Advance(r) ==
    /\ pc' = [pc EXCEPT ![r] = Continue(i[r])]
    /\ i' = [i EXCEPT ![r] = IF Continue(@) = "loop" THEN @ + 1 ELSE @]

\* Mutant of ExceptClause: the failure of a critical service is recorded and
\* raised again.
ExceptClause_reraise(r, service_name) ==
    /\ results' = [results EXCEPT ![r] = Put(@, service_name, FailedMessage(outcome[r]))]
    /\ IF IsCritical(service_name)
         THEN /\ pc' = [pc EXCEPT ![r] = "raised"]
              /\ UNCHANGED <<i, outcome>>
         ELSE /\ outcome' = [outcome EXCEPT ![r] = "none"]
              /\ Advance(r)

\* Mutant of ExceptClause: after the failure of a non-critical service the
\* same name is tried again.
ExceptClause_retry(r, service_name) ==
    /\ results' = [results EXCEPT ![r] = Put(@, service_name, FailedMessage(outcome[r]))]
    /\ outcome' = [outcome EXCEPT ![r] = "none"]
    /\ IF IsCritical(service_name)
         THEN /\ pc' = [pc EXCEPT ![r] = "register_connections"]
              /\ UNCHANGED i
         ELSE /\ pc' = [pc EXCEPT ![r] = "loop"]
              /\ UNCHANGED i

\* Mutant of ExceptClause: the except clause does not catch the ValueError of
\* an unknown service, which leaves initialize_all_services.
ExceptClause_unknown_propagates(r, service_name) ==
    IF outcome[r] = "ValueError"
      THEN /\ pc' = [pc EXCEPT ![r] = "raised"]
           /\ UNCHANGED <<results, outcome, i>>
      ELSE /\ results' = [results EXCEPT ![r] = Put(@, service_name, FailedMessage(outcome[r]))]
           /\ outcome' = [outcome EXCEPT ![r] = "none"]
           /\ IF IsCritical(service_name)
                THEN /\ pc' = [pc EXCEPT ![r] = "register_connections"]
                     /\ UNCHANGED i
                ELSE Advance(r)

\* except Exception as e: the failure is recorded, and a critical service
\* breaks out of the loop.
ExceptClause(r, service_name) ==
    /\ results' = [results EXCEPT ![r] = Put(@, service_name, FailedMessage(outcome[r]))]
    /\ outcome' = [outcome EXCEPT ![r] = "none"]
    /\ IF IsCritical(service_name)
         THEN /\ pc' = [pc EXCEPT ![r] = "register_connections"]
              /\ UNCHANGED i
         ELSE Advance(r)

\* The try statement after the await: results[service_name] = result, or the
\* except clause.
record_result(r) ==
    /\ pc[r] = "handle"
    /\ LET service_name == order[i[r]] IN
       IF outcome[r] = "initialized"
         THEN /\ results' = [results EXCEPT ![r] = Put(@, service_name, outcome[r])]
              /\ outcome' = [outcome EXCEPT ![r] = "none"]
              /\ Advance(r)
         ELSE ExceptClause(r, service_name)
    /\ UNCHANGED <<db_initialized, services, connections, initialized, failures>>

\* self._register_connections(): the five handles are read from db_manager and
\* registered; an accessor of an uninitialized provider raises.
register_connections(r) ==
    /\ pc[r] = "register_connections"
    /\ IF db_initialized
         THEN /\ connections' = connections \cup StandardConnections
              /\ pc' = [pc EXCEPT ![r] = "mark_initialized"]
              /\ UNCHANGED outcome
         ELSE /\ pc' = [pc EXCEPT ![r] = "raised"]
              /\ outcome' = [outcome EXCEPT ![r] = "NotInitializedError"]
              /\ UNCHANGED connections
    /\ UNCHANGED <<db_initialized, services, initialized, i, results, failures>>

\* registry.mark_initialized(); return results
mark_initialized(r) ==
    /\ pc[r] = "mark_initialized"
    /\ initialized' = TRUE
    /\ pc' = [pc EXCEPT ![r] = "returned"]
    /\ UNCHANGED <<db_initialized, services, connections, i, results, outcome, failures>>

\* A step of a run leaves the order and the dependency query alone.
RunStep(A) == A /\ UNCHANGED <<order, dep_call>>

\* Callers one after the other: run r starts when run r-1 has ended.
Sequential(r) == \A q \in Runs : q < r => Finished(q)

Next ==
    \E r \in Runs :
        \/ RunStep(Sequential(r) /\ initialize_all_services(r))
        \/ RunStep(initialize_connections(r))
        \/ RunStep(initialize_service(r))
        \/ RunStep(load_all_agent_statuses_from_db(r))
        \/ RunStep(record_result(r))
        \/ RunStep(register_connections(r))
        \/ RunStep(mark_initialized(r))

Spec == Init /\ [][Next]_vars

(***************************************************************************)
(* Concurrent callers: several calls of initialize_all_services as tasks   *)
(* of one event loop.  A task runs until it reaches an await, so a run     *)
(* steps only while every other run is suspended at an await, not started  *)
(* or ended.                                                               *)
(***************************************************************************)
Suspended(q) ==
    pc[q] \in {"idle", "db_await", "db_wait", "readiness", "returned", "raised"}

Runnable(r) == \A q \in Runs \ {r} : Suspended(q)

\* Runs start in the order of their numbers.
StartedInOrder(r) == \A q \in Runs : q < r => pc[q] # "idle"

\* A step of run r as a task of the event loop.
Task(r, A) == Runnable(r) /\ RunStep(A)

NextConcurrent ==
    \E r \in Runs :
        \/ Task(r, StartedInOrder(r) /\ initialize_all_services(r))
        \/ Task(r, initialize_connections(r))
        \/ Task(r, connections_observed(r))
        \/ Task(r, initialize_service(r))
        \/ Task(r, load_all_agent_statuses_from_db(r))
        \/ Task(r, record_result(r))
        \/ Task(r, register_connections(r))
        \/ Task(r, mark_initialized(r))

SpecConcurrent == Init /\ [][NextConcurrent]_vars

TypeOK ==
    /\ db_initialized \in BOOLEAN
    /\ services \in [FactoryNames -> 0..MaxRuns]
    /\ connections \subseteq StandardConnections
    /\ initialized \in BOOLEAN
    /\ pc \in [Runs -> {"idle", "db_await", "db_wait", "loop", "readiness", "handle",
                        "register_connections", "mark_initialized", "returned", "raised"}]
    /\ i \in [Runs -> 0..OrderLen]
    /\ \A r \in Runs : /\ DOMAIN results[r] \subseteq OrderNames
                       /\ \A n \in DOMAIN results[r] :
                            results[r][n] \in {"initialized"} \cup FailedValues
    /\ outcome \in [Runs -> {"none", "initialized"} \cup Exceptions]
    /\ failures \in 0..MaxFailures
    /\ order = initialization_order
    /\ dep_call = NoCall

(***************************************************************************)
(* Properties.                                                             *)
(***************************************************************************)
Position(name) == CHOOSE k \in 1..OrderLen : initialization_order[k] = name

IsFailed(v) == v \in FailedValues

\* The report entry of a name, "absent" when the name is no key.
Entry(r, n) == IF n \in DOMAIN results[r] THEN results[r][n] ELSE "absent"

PastLoop(r) == pc[r] \in {"register_connections", "mark_initialized", "returned"}

\* The critical names a run has recorded as failed.
FailedCriticals(r) ==
    {n \in DOMAIN results[r] :
        /\ n \in {"market_data", "trading_engine", "portfolio_tracker"}
        /\ IsFailed(results[r][n])}

\* C1, state part: once a critical name is recorded as failed, the loop is
\* over with the position still at that name, the keys of the results are
\* exactly the names up to it, and the run has registered no later name.
C1_AbortedAtCritical ==
    \A r \in Runs : \A n \in FailedCriticals(r) :
        /\ PastLoop(r)
        /\ i[r] = Position(n)
        /\ DOMAIN results[r] = Prefix(Position(n))
        /\ \A m \in OrderNames \ Prefix(Position(n)) : services[m] # r

\* C1, step part: an outcome, once recorded, is kept.
C1_OutcomesKept ==
    \A r \in Runs : \A n \in DOMAIN results[r] :
        /\ n \in DOMAIN results'[r]
        /\ results'[r][n] = results[r][n]

\* C1: when the construction of a critical name fails, no later name of
\* initialization_order is attempted or reported, the earlier names keep their
\* outcomes, and the report keys are the prefix ending at the failed name.
C1_CriticalFailureAborts ==
    /\ [] C1_AbortedAtCritical
    /\ [][C1_OutcomesKept]_vars

\* A run returned after trading_engine failed, an earlier name having failed too.
C1_Witness ==
    \E r \in Runs :
        /\ pc[r] = "returned"
        /\ IsFailed(Entry(r, "historical_data"))
        /\ Entry(r, "portfolio_tracker") = "initialized"
        /\ IsFailed(Entry(r, "trading_engine"))

\* C2, step part: the except clause for a non-critical name records the
\* failure and goes on with the next name (or ends the loop after the last).
C2_FailureRecordedAndLoopContinues ==
    \A r \in Runs :
        LET n == initialization_order[i[r]] IN
        ( /\ pc[r] = "handle"
          /\ outcome[r] \in Exceptions
          /\ n \notin {"market_data", "trading_engine", "portfolio_tracker"} )
        => /\ n \in DOMAIN results'[r]
           /\ results'[r][n] = FailedMessage(outcome[r])
           /\ IF i[r] < OrderLen
                THEN pc'[r] = "loop" /\ i'[r] = i[r] + 1
                ELSE pc'[r] = "register_connections"

\* C2, state part: without a failed critical name, every name before the
\* current position has its outcome, and a returned report has every name.
C2_AllAttemptedUnlessCriticalFails ==
    \A r \in Runs :
        FailedCriticals(r) = {} =>
            /\ pc[r] \in {"loop", "readiness", "handle"} => DOMAIN results[r] = Prefix(i[r] - 1)
            /\ PastLoop(r) => DOMAIN results[r] = OrderNames

\* C2: a failure of a non-critical name is recorded as failed and the loop
\* continues: every later name is attempted and reported, unless a critical
\* name fails in between.
C2_NonCriticalFailureContinues ==
    /\ [] C2_AllAttemptedUnlessCriticalFails
    /\ [][C2_FailureRecordedAndLoopContinues]_vars

\* A returned report with two failed non-critical names, the critical names
\* and the names after the failures initialized.
C2_Witness ==
    \E r \in Runs :
        /\ pc[r] = "returned"
        /\ IsFailed(Entry(r, "historical_data"))
        /\ Entry(r, "trading_engine") = "initialized"
        /\ IsFailed(Entry(r, "user_preference"))
        /\ Entry(r, "autogen_trading_system") = "initialized"

\* C3: after any run that ended its loop (completed or aborted by a critical
\* failure) and returned, the five standard connections are in the registry's
\* connection mapping and is_initialized() is true.
C3_ConnectionsRegisteredAfterRun ==
    \A r \in Runs :
        pc[r] = "returned" =>
            /\ {"supabase", "redis", "async_redis", "database_engine", "session_factory"}
                   \subseteq connections
            /\ initialized

\* The first run returned after market_data failed: an aborted run.
C3_Witness ==
    /\ pc[1] = "returned"
    /\ DOMAIN results[1] = {"market_data"}
    /\ IsFailed(Entry(1, "market_data"))

\* C4, state part: an exception that left initialize_all_services is the
\* ConnectionError of the provider, raised before the loop: no name was
\* attempted and nothing is in the results.
C4_OnlyProviderFailureRaises ==
    \A r \in Runs :
        pc[r] = "raised" =>
            /\ outcome[r] = "ConnectionError"
            /\ i[r] = 0
            /\ results[r] = EmptyDict

\* C4, step part: an exception of a construction or readiness step, of a
\* critical or non-critical name, becomes the failed entry of that name and
\* the call goes on towards its return.
C4_FailureBecomesEntry ==
    \A r \in Runs :
        LET n == initialization_order[i[r]] IN
        (pc[r] = "handle" /\ outcome[r] \in Exceptions)
        => /\ n \in DOMAIN results'[r]
           /\ results'[r][n] = FailedMessage(outcome[r])
           /\ pc'[r] \in {"loop", "register_connections"}
           /\ outcome'[r] = "none"

\* C4: only a failure of the resource provider before the loop raises out of
\* initialize_all_services; every failure of a construction or readiness step
\* is turned into a failed entry of the report, and the call goes on to
\* return it.
C4_FailuresBecomeData ==
    /\ [] C4_OnlyProviderFailureRaises
    /\ [][C4_FailureBecomesEntry]_vars

\* The first call raised the provider's error; the second returned a report
\* whose last entry is the failed critical trading_engine.
C4_Witness ==
    /\ pc[1] = "raised"
    /\ outcome[1] = "ConnectionError"
    /\ pc[2] = "returned"
    /\ Entry(2, "trading_engine") = "failed: ConstructionError"

\* C5, state part: a call that raised attempted and registered nothing; while
\* no call got past the provider, the registry is untouched; the provider is
\* awaited only while it is not initialized.
C5_NothingDoneWhenProviderFails ==
    \A r \in Runs :
        /\ pc[r] = "raised" =>
              /\ i[r] = 0
              /\ results[r] = EmptyDict
              /\ \A n \in FactoryNames : services[n] # r
              /\ (\A q \in Runs : pc[q] \in {"idle", "raised"}) =>
                    /\ \A n \in FactoryNames : services[n] = 0
                    /\ connections = {}
                    /\ ~initialized
        /\ pc[r] = "db_await" => ~db_initialized

\* C5, step part: the failing initialize_connections changes nothing of the
\* registry and ends the call for good; a call that finds the provider
\* initialized enters the loop without calling initialize_connections.
C5_ProviderStep ==
    \A r \in Runs :
        /\ (pc[r] = "db_await" /\ pc'[r] = "raised") =>
              /\ UNCHANGED <<services, connections, initialized, db_initialized>>
              /\ results'[r] = EmptyDict
        /\ pc[r] = "raised" => pc'[r] = "raised"
        /\ (pc[r] = "idle" /\ pc'[r] # "idle") =>
              IF db_initialized
                THEN pc'[r] = "loop" /\ db_initialized'
                ELSE pc'[r] = "db_await"

\* C5: when initialize_connections fails, the call ends before any service
\* attempt; nothing is constructed or registered, the registry is not marked
\* initialized and no report is returned.  When the provider is initialized
\* already, initialize_connections is not called.
C5_ProviderFailureIsFatal ==
    /\ [] C5_NothingDoneWhenProviderFails
    /\ [][C5_ProviderStep]_vars

\* The first call raised, the second call entered its loop after initializing
\* the provider itself.
C5_Witness ==
    /\ pc[1] = "raised"
    /\ outcome[1] = "ConnectionError"
    /\ results[1] = EmptyDict
    /\ connections = {}
    /\ ~initialized
    /\ pc[2] = "db_await"

\* C6: when no constructor and no readiness step raised, a returned report has
\* one entry per name of initialization_order, 18 in all and no other key,
\* each "initialized"; each name is registered, and is_initialized() is true.
C6_AllSucceed ==
    \A r \in Runs :
        (pc[r] = "returned" /\ failures = 0) =>
            /\ DOMAIN results[r] = OrderNames
            /\ Cardinality(DOMAIN results[r]) = 18
            /\ \A n \in DOMAIN results[r] : results[r][n] = "initialized"
            /\ \A n \in OrderNames : services[n] >= r
            /\ initialized

\* Two calls returned and nothing raised.
C6_Witness ==
    /\ pc[1] = "returned"
    /\ pc[2] = "returned"
    /\ failures = 0
    /\ Entry(2, "autogen_trading_system") = "initialized"

\* C7, state part: the flag is true only when a call has returned, that is
\* after its loop ended and the connections were registered; while the first
\* call is in its loop the flag is false.
C7_FlagOnlyAfterPass ==
    /\ initialized =>
          /\ \E r \in Runs : pc[r] = "returned"
          /\ {"supabase", "redis", "async_redis", "database_engine", "session_factory"}
                 \subseteq connections
    /\ (pc[1] \in {"db_await", "loop", "readiness", "handle", "register_connections",
                   "mark_initialized"}) => ~initialized

\* C7: the initialized flag of the registry is one-way: false while the first
\* orchestration pass is in its loop, true only after a pass ended and
\* registered the connections, and never set back to false, also by a later
\* run.
C7_InitializedFlagOneWay ==
    /\ [] C7_FlagOnlyAfterPass
    /\ [][initialized => initialized']_vars

\* The flag is set and the second call is in its loop, services registered.
C7_Witness ==
    /\ pc[1] = "returned"
    /\ pc[2] = "handle"
    /\ services["market_data"] = 2
    /\ initialized

\* The elements of a list.
Elements(seq) == {seq[k] : k \in 1..Len(seq)}

\* The names the branch of n reads from the registry or declares as
\* dependencies.
DependsOn(n) == Elements(get_service_dependencies(n)) \cup RegistryLookups(n)

\* C8: every dependency D listed for a name N in the dependency table, and
\* every name D that N's branch of _initialize_service looks up in the
\* registry, stands strictly before N in initialization_order; so whenever a
\* name is attempted, the names it depends on are at earlier positions.
C8_DependenciesEarlier ==
    /\ \A n \in DependencyKeys \cup FactoryNames : \A d \in DependsOn(n) :
          /\ n \in OrderNames
          /\ d \in OrderNames
          /\ Position(d) < Position(n)
    /\ \A r \in Runs :
          pc[r] \in {"loop", "readiness", "handle"} =>
              \A d \in DependsOn(initialization_order[i[r]]) : d \in Prefix(i[r] - 1)

\* risk_management was built from the portfolio_tracker registered before it.
C8_Witness ==
    \E r \in Runs :
        /\ pc[r] = "handle"
        /\ initialization_order[i[r]] = "risk_management"
        /\ outcome[r] = "initialized"
        /\ services["portfolio_tracker"] = r
        /\ services["risk_management"] = r

\* The attempt for a name has finished: it is recorded as initialized and the
\* run has registered the instance, or it is recorded as failed and the run
\* has registered nothing for it.
AttemptFinished(r, n) ==
    /\ n \in DOMAIN results[r]
    /\ \/ results[r][n] = "initialized" /\ services[n] = r
       \/ IsFailed(results[r][n]) /\ services[n] # r

\* C9: within a run the constructions are sequential in the declared order:
\* while the name at position i is being attempted (also while its readiness
\* step is awaited), the attempt of every earlier name has finished, and no
\* later name has been attempted, recorded or registered by the run; the
\* construction of the current name is the only one in progress.
C9_StrictlySequential ==
    \A r \in Runs :
        pc[r] \in {"loop", "readiness", "handle"} =>
            /\ i[r] \in 1..OrderLen
            /\ \A k \in 1..(i[r] - 1) : AttemptFinished(r, initialization_order[k])
            /\ \A k \in i[r]..OrderLen : initialization_order[k] \notin DOMAIN results[r]
            /\ \A k \in (i[r] + 1)..OrderLen : services[initialization_order[k]] # r
            /\ pc[r] \in {"loop", "readiness"} => services[initialization_order[i[r]]] # r
            /\ pc[r] = "readiness" => HasReadinessStep(initialization_order[i[r]])

\* The readiness step of agent_management is awaited: the twelve names before
\* it are done, strategy_config has not started.
C9_Witness ==
    /\ pc[1] = "readiness"
    /\ services["hyperliquid_execution"] = 1
    /\ Entry(1, "hyperliquid_execution") = "initialized"
    /\ services["strategy_config"] = 0

\* C10, state part: while the readiness step is pending the instance is not
\* in the registry, and an agent_management recorded as failed was not
\* registered by the run.
C10_NotVisibleWhilePending ==
    \A r \in Runs :
        /\ pc[r] = "readiness" =>
              /\ initialization_order[i[r]] = "agent_management"
              /\ services["agent_management"] # r
        /\ IsFailed(Entry(r, "agent_management")) => services["agent_management"] # r
        /\ Entry(r, "agent_management") = "initialized" => services["agent_management"] >= r

\* C10, step part: the step that ends the readiness wait registers the
\* instance exactly when it succeeds; after a raise the failure is recorded
\* and the loop goes on with strategy_config.
C10_ReadinessStep ==
    \A r \in Runs :
        /\ pc[r] = "readiness" =>
              /\ pc'[r] = "handle"
              /\ \/ outcome'[r] = "initialized" /\ services'["agent_management"] = r
                 \/ outcome'[r] = "ReadinessError" /\ UNCHANGED services
        /\ (pc[r] = "handle" /\ outcome[r] = "ReadinessError") =>
              /\ IsFailed(Entry(r, "agent_management"))'
              /\ UNCHANGED services
              /\ pc'[r] = "loop"
              /\ initialization_order[i'[r]] = "strategy_config"

\* C10: agent_management is registered only after its readiness step
\* load_all_agent_statuses_from_db has run to completion; when the step raises
\* the service is not registered by the run, its outcome is failed and the run
\* continues with the next name.
C10_RegisteredAfterReadiness ==
    /\ [] C10_NotVisibleWhilePending
    /\ [][C10_ReadinessStep]_vars

\* The readiness step raised in the second run: the instance of the first run
\* stays, the failure is recorded and strategy_config was built.
C10_Witness ==
    /\ Entry(2, "agent_management") = "failed: ReadinessError"
    /\ services["agent_management"] = 1
    /\ Entry(2, "strategy_config") = "initialized"

\* C11, state part: no name stands twice in the order, and a name whose
\* attempt is about to start has no entry in the results and no instance of
\* the run in the registry.
C11_NotAttemptedBefore ==
    /\ \A j, k \in 1..OrderLen :
          initialization_order[j] = initialization_order[k] => j = k
    /\ \A r \in Runs :
          pc[r] = "loop" =>
              /\ initialization_order[i[r]] \notin DOMAIN results[r]
              /\ services[initialization_order[i[r]]] # r

\* C11, step part: while a run is under way, an instance it registered stays,
\* and it registers an instance only for the name it is attempting, which has
\* no outcome yet.
C11_RegisteredOnce ==
    \A r \in Runs : \A n \in FactoryNames :
        /\ (services[n] = r /\ ~Finished(r)) => services'[n] = r
        /\ (services[n] # r /\ services'[n] = r) =>
              /\ n = initialization_order[i[r]]
              /\ n \notin DOMAIN results[r]
              /\ pc[r] \in {"loop", "readiness"}

\* C11: within one run each name is attempted at most once and
\* register_service is called at most once per name; an instance registered
\* during the run is not replaced later in the same run.
C11_ConstructedOnce ==
    /\ [] C11_NotAttemptedBefore
    /\ [][C11_RegisteredOnce]_vars

\* The second run reached the last name after a failure; the instances it
\* registered so far replaced those of the first run and are still its own.
C11_Witness ==
    /\ pc[2] = "loop"
    /\ i[2] = OrderLen
    /\ services["market_data"] = 2
    /\ IsFailed(Entry(2, "watchlist"))
    /\ services["watchlist"] = 1

\* C12: every name of initialization_order has exactly one branch in
\* _initialize_service, so in a run over the fixed order the final else
\* branch is not reached: no attempt ends in the unknown-service ValueError
\* and no report entry records one.
C12_EveryNameHasOneBranch ==
    /\ \A n \in OrderNames :
          /\ n \in FactoryNames
          /\ Cardinality({k \in 1..Len(Branches) : Branches[k] = n}) = 1
    /\ \A r \in Runs :
          /\ outcome[r] # "ValueError"
          /\ \A n \in DOMAIN results[r] : results[r][n] # FailedMessage("ValueError")

\* The branch of the last name of the order was found and returned.
C12_Witness ==
    /\ pc[1] = "handle"
    /\ i[1] = OrderLen
    /\ outcome[1] = "initialized"
    /\ DOMAIN results[1] = Prefix(OrderLen - 1)

\* The runs that are inside a call of db_manager.initialize_connections().
InConnectionsCall == {r \in Runs : pc[r] \in {"db_await", "db_wait"}}

\* C13 as stated: a caller that arrives while another caller's
\* initialize_connections is in progress does not start a second call, so at
\* most one run is ever inside initialize_connections.
C13_NoSecondCall == Cardinality(InConnectionsCall) <= 1

\* C13, state part: at most one caller establishes the connections at a time,
\* nobody establishes them once they are established, and a run that went
\* past the provider sees them established.
C13_OneEstablishing ==
    /\ Cardinality({r \in Runs : pc[r] = "db_await"}) <= 1
    /\ db_initialized => \A r \in Runs : pc[r] # "db_await"
    /\ \A r \in Runs :
          pc[r] \notin {"idle", "db_await", "db_wait", "raised"} => db_initialized

\* C13, step part: the connections are established once, by the caller that
\* was establishing them, and a waiting caller goes on into its loop only by
\* observing them established, without establishing anything itself.
C13_EstablishedOnce ==
    /\ db_initialized => db_initialized'
    /\ (~db_initialized /\ db_initialized') =>
          \E r \in Runs : pc[r] = "db_await" /\ pc'[r] = "loop"
    /\ \A r \in Runs :
          (pc[r] = "db_wait" /\ pc'[r] = "loop") =>
              db_initialized /\ db_initialized'

\* C13 (amended): when runs interleave at their await points a second caller
\* does call initialize_connections, the orchestrator's test of
\* is_initialized() and its await being two steps; the provider makes that
\* caller wait, so the connections are established by one caller at a time
\* and once, and the waiting caller observes the established state.
C13_ProviderInitializedOnce ==
    /\ [] C13_OneEstablishing
    /\ [][C13_EstablishedOnce]_vars

\* The first caller is establishing the connections and the second caller,
\* having found the provider not initialized, is inside its own call.
C13_Witness ==
    /\ pc[1] = "db_await"
    /\ pc[2] = "db_wait"
    /\ ~db_initialized

(***************************************************************************)
(* The readiness step never completes: the runs without the step that      *)
(* resumes them after load_all_agent_statuses_from_db().                   *)
(***************************************************************************)
NextHang ==
    \E r \in Runs :
        \/ RunStep(Sequential(r) /\ initialize_all_services(r))
        \/ RunStep(initialize_connections(r))
        \/ RunStep(initialize_service(r))
        \/ RunStep(record_result(r))
        \/ RunStep(register_connections(r))
        \/ RunStep(mark_initialized(r))

SpecHang == Init /\ [][NextHang]_vars

\* The names that stand after agent_management in the order.
AfterAgentManagement ==
    {n \in OrderNames : Position(n) > Position("agent_management")}

\* C14, state part: the readiness step never completing, agent_management is
\* never registered nor recorded as initialized; a run has gone on to a later
\* name, or has left its loop without an abort on a critical name, only if
\* the constructor of agent_management raised, so that the readiness step
\* was not started.  A run that awaits the readiness step has recorded
\* exactly the names before agent_management and registered none after it,
\* the names it recorded as initialized are registered as its instances, and
\* unless a run before it returned, no connection is registered and the
\* registry is not marked initialized.
C14_NothingAfterTheHang ==
    /\ services["agent_management"] = 0
    /\ \A r \in Runs :
          /\ Entry(r, "agent_management") # "initialized"
          /\ ( \/ i[r] > Position("agent_management")
               \/ \E n \in AfterAgentManagement :
                     Entry(r, n) # "absent" \/ services[n] = r
               \/ PastLoop(r) /\ FailedCriticals(r) = {} )
                => IsFailed(Entry(r, "agent_management"))
          /\ pc[r] = "readiness" =>
                /\ i[r] = Position("agent_management")
                /\ DOMAIN results[r] = Prefix(i[r] - 1)
                /\ \A n \in AfterAgentManagement : services[n] # r
                /\ \A n \in DOMAIN results[r] :
                      results[r][n] = "initialized" => services[n] = r
                /\ (\A q \in Runs : q < r => pc[q] = "raised") =>
                      connections = {} /\ ~initialized

\* C14, step part: from a state in which a run awaits the readiness step no
\* step is taken at all: the run stays there and the registry stays as it is.
C14_NoStepFromReadiness == \A r \in Runs : pc[r] # "readiness"

\* C14: if the readiness step of agent_management never completes, the run
\* blocks there for ever: no later name is attempted, the connections are not
\* registered, the registry is not marked initialized and no report is
\* returned, while the services registered before stay in the registry.
C14_HangBlocksTheRun ==
    /\ [] C14_NothingAfterTheHang
    /\ [][C14_NoStepFromReadiness]_vars

\* A first run awaits the readiness step, with every earlier name registered.
C14_Witness ==
    /\ pc[1] = "readiness"
    /\ \A n \in Prefix(Position("agent_management") - 1) : services[n] = 1
    /\ connections = {}
    /\ ~initialized

(***************************************************************************)
(* Calls of get_service_dependencies by the other tasks of the process.    *)
(* The coroutine has no await: a call runs from its entry to its return    *)
(* while every run is suspended, not started or ended, and its caller has  *)
(* the value before a run goes on.                                         *)
(***************************************************************************)
\* The names asked for: the names of the order and a name that is no key.
QueryNames == OrderNames \cup {"unknown_service"}

\* Mutant of call_get_service_dependencies: the dict is subscripted,
\* dependencies[service_name], and a name that is no key raises KeyError.
call_get_service_dependencies_subscript(service_name) ==
    /\ dep_call = NoCall
    /\ \A q \in Runs : Suspended(q)
    /\ dep_call' =
          IF service_name \in DOMAIN dependencies
            THEN [name |-> service_name, result |-> dependencies[service_name],
                  raised |-> "none"]
            ELSE [name |-> service_name, result |-> << >>, raised |-> "KeyError"]
    /\ UNCHANGED <<db_initialized, services, connections, initialized, pc, i,
                   results, outcome, failures, order>>

\* await service_initializer.get_service_dependencies(service_name)
call_get_service_dependencies(service_name) ==
    /\ dep_call = NoCall
    /\ \A q \in Runs : Suspended(q)
    /\ dep_call' = [name |-> service_name,
                    result |-> get_service_dependencies(service_name),
                    raised |-> "none"]
    /\ UNCHANGED <<db_initialized, services, connections, initialized, pc, i,
                   results, outcome, failures, order>>

\* The caller takes the returned list.
return_get_service_dependencies ==
    /\ dep_call # NoCall
    /\ dep_call' = NoCall
    /\ UNCHANGED <<db_initialized, services, connections, initialized, pc, i,
                   results, outcome, failures, order>>

\* A step of run r between two calls of get_service_dependencies.
BetweenCalls(A) == dep_call = NoCall /\ RunStep(A)

NextQueries ==
    \/ \E r \in Runs :
          \/ BetweenCalls(Sequential(r) /\ initialize_all_services(r))
          \/ BetweenCalls(initialize_connections(r))
          \/ BetweenCalls(initialize_service(r))
          \/ BetweenCalls(load_all_agent_statuses_from_db(r))
          \/ BetweenCalls(record_result(r))
          \/ BetweenCalls(register_connections(r))
          \/ BetweenCalls(mark_initialized(r))
    \/ \E service_name \in QueryNames : call_get_service_dependencies(service_name)
    \/ return_get_service_dependencies

SpecQueries == Init /\ [][NextQueries]_vars

\* C15, state part: a call has raised nothing and has returned the declared
\* list of its name: market_data for portfolio_tracker and for
\* trading_engine, portfolio_tracker for risk_management, and the empty list
\* for every other name, the unknown one included.
C15_DeclaredListReturned ==
    dep_call # NoCall =>
        /\ dep_call.raised = "none"
        /\ dep_call.result =
              CASE dep_call.name = "portfolio_tracker" -> <<"market_data">>
                [] dep_call.name = "trading_engine"    -> <<"market_data">>
                [] dep_call.name = "risk_management"   -> <<"portfolio_tracker">>
                [] OTHER                               -> << >>

\* C15, step part: a call is possible for every name in every state where it
\* may be made, and the step of a call leaves the registry, the connections,
\* the order and every run as they are.
C15_CallChangesNothing ==
    (dep_call = NoCall /\ dep_call' # NoCall) =>
        /\ dep_call'.name \in QueryNames
        /\ UNCHANGED <<db_initialized, services, connections, initialized, pc, i,
                       results, outcome, failures, order>>

\* C15: get_service_dependencies(name) returns the declared dependency list
\* of name and the empty list, without raising, for a name without
\* dependencies and for an unknown name; the call changes neither the
\* registry nor the initializer.
C15_DependenciesLookup ==
    /\ [] C15_DeclaredListReturned
    /\ [][C15_CallChangesNothing]_vars

\* The list of an unknown name was asked for while a run awaited the
\* readiness step, with services registered.
C15_Witness ==
    /\ dep_call.name = "unknown_service"
    /\ dep_call.result = << >>
    /\ dep_call.raised = "none"
    /\ pc[1] = "readiness"
    /\ services["risk_management"] = 1

(***************************************************************************)
(* An initializer whose initialization_order, a public attribute, holds a  *)
(* name without a branch in _initialize_service: the name stands before    *)
(* the first name, after agent_management, or after the last name.         *)
(***************************************************************************)
WithUnknownAfter(k) ==
    SubSeq(initialization_order, 1, k) \o <<"unknown_service">>
        \o SubSeq(initialization_order, k + 1, OrderLen)

ConfiguredOrders ==
    {WithUnknownAfter(k) : k \in {0, Position("agent_management"), OrderLen}}

InitConfigured ==
    /\ Fresh
    /\ order \in ConfiguredOrders

SpecConfigured == InitConfigured /\ [][Next]_vars

\* C16 as stated: the unknown-service error is not converted into a failed
\* outcome, so no report holds an entry that records it.
C16_UnknownServiceErrorNotRecorded ==
    \A r \in Runs : \A n \in DOMAIN results[r] :
        results[r][n] # FailedMessage("ValueError")

\* C16, state part: the ValueError is the outcome of the attempt of the name
\* without a branch and of no other; it never leaves the run, whose only
\* raised errors are those of the provider; the entry of that name, once
\* there, is the failed outcome made of it.
C16_UnknownServiceErrorCaught ==
    \A r \in Runs :
        /\ (pc[r] = "handle" /\ order[i[r]] = "unknown_service") =>
              outcome[r] = "ValueError"
        /\ outcome[r] = "ValueError" =>
              pc[r] = "handle" /\ order[i[r]] = "unknown_service"
        /\ pc[r] = "raised" => outcome[r] \in {"ConnectionError", "NotInitializedError"}
        /\ Entry(r, "unknown_service") \in {"absent", FailedMessage("ValueError")}

\* C16, step part: the step that handles an error of the attempt of a name,
\* whatever the error, records it as the failed outcome of the name and goes
\* on: with the next name, or to the registration of the connections when
\* the name is critical or the last one.
C16_ErrorRecordedAndLoopGoesOn ==
    \A r \in Runs :
        (pc[r] = "handle" /\ outcome[r] # "initialized" /\ pc'[r] # "handle") =>
            LET n == order[i[r]] IN
            /\ n \in DOMAIN results'[r]
            /\ results'[r][n] = FailedMessage(outcome[r])
            /\ \A m \in DOMAIN results[r] : m # n => results'[r][m] = results[r][m]
            /\ IF n \in {"market_data", "trading_engine", "portfolio_tracker"}
                    \/ i[r] = Len(order)
                 THEN pc'[r] = "register_connections" /\ i'[r] = i[r]
                 ELSE pc'[r] = "loop" /\ i'[r] = i[r] + 1

\* C16 (amended): every error raised while initializing a name, the
\* unknown-service error of a name without a factory branch included, is
\* caught at the per-name level and converted into a failed outcome; the
\* unknown name not being critical, the loop continues with the next name.
C16_EveryErrorBecomesFailedOutcome ==
    /\ [] C16_UnknownServiceErrorCaught
    /\ [][C16_ErrorRecordedAndLoopGoesOn]_vars

\* The unknown name stood first: its error was recorded, and the run went on
\* to the last name and returned.
C16_Witness ==
    /\ order[1] = "unknown_service"
    /\ pc[1] = "returned"
    /\ Entry(1, "unknown_service") = FailedMessage("ValueError")
    /\ Entry(1, "market_data") = "initialized"
    /\ Entry(1, "autogen_trading_system") = "initialized"

\* Every instance in the registry is one that run r registered: the run found
\* the registry empty, or has replaced what it found.
OnlyOwnInstances(r) == \A n \in FactoryNames : services[n] \in {0, r}

\* C17: in a run that starts with an empty registry, when the construction
\* of a name is attempted every service its branch looks up is registered,
\* so no attempt ends in a not-found error and no report records one: the
\* names with lookups are portfolio_tracker, trading_engine and
\* risk_management, and every name looked up is critical and stands earlier
\* in the order, its failure ending the loop before the dependent's turn.
C17_LookupsNeverFail ==
    /\ {n \in FactoryNames : RegistryLookups(n) # {}}
          = {"portfolio_tracker", "trading_engine", "risk_management"}
    /\ \A n \in FactoryNames : \A d \in RegistryLookups(n) :
          /\ d \in {"market_data", "trading_engine", "portfolio_tracker"}
          /\ Position(d) < Position(n)
    /\ \A r \in Runs :
          /\ (pc[r] = "loop" /\ OnlyOwnInstances(r)) =>
                \A d \in RegistryLookups(order[i[r]]) :
                    /\ services[d] = r
                    /\ Entry(r, d) = "initialized"
          /\ outcome[r] # "ServiceNotFoundError"
          /\ \A n \in DOMAIN results[r] :
                results[r][n] # FailedMessage("ServiceNotFoundError")

\* The first run is about to attempt risk_management after the failure of a
\* non-critical name; portfolio_tracker, which it looks up, is registered.
C17_Witness ==
    /\ pc[1] = "loop"
    /\ order[i[1]] = "risk_management"
    /\ IsFailed(Entry(1, "order_management"))
    /\ services["portfolio_tracker"] = 1

\* The names run r has recorded as initialized.
InitializedNames(r) == {n \in DOMAIN results[r] : results[r][n] = "initialized"}

\* The names registered in the registry.
RegisteredNames == {n \in FactoryNames : services[n] # 0}

\* C18: in a run that starts with an empty registry the report and the
\* registry agree: a name whose entry is "initialized" is registered, as an
\* instance of the run, in every state, and once the loop is over, up to the
\* return, the registered names are exactly the names recorded as
\* initialized: a name recorded as failed or absent from the report is not
\* registered.
C18_ReportAndRegistryAgree ==
    \A r \in Runs :
        OnlyOwnInstances(r) =>
            /\ \A n \in InitializedNames(r) : services[n] = r
            /\ PastLoop(r) =>
                  /\ RegisteredNames = InitializedNames(r)
                  /\ \A n \in OrderNames :
                        (IsFailed(Entry(r, n)) \/ Entry(r, n) = "absent") =>
                            services[n] = 0

\* The first run returned a report in which the readiness step of
\* agent_management failed, so that name is not registered, and a later name
\* is initialized and registered.
C18_Witness ==
    /\ pc[1] = "returned"
    /\ Entry(1, "agent_management") = FailedMessage("ReadinessError")
    /\ services["agent_management"] = 0
    /\ Entry(1, "watchlist") = "initialized"
    /\ services["watchlist"] = 1

(***************************************************************************)
(* Termination.  The provider's initialization, the constructors and the   *)
(* readiness step terminate, and the event loop resumes a run whose await  *)
(* is over: a step of a started run that stays possible is taken.          *)
(***************************************************************************)
Resume ==
    \E r \in Runs :
        \/ RunStep(initialize_connections(r))
        \/ RunStep(initialize_service(r))
        \/ RunStep(load_all_agent_statuses_from_db(r))
        \/ RunStep(record_result(r))
        \/ RunStep(register_connections(r))
        \/ RunStep(mark_initialized(r))

FairSpec == Spec /\ WF_vars(Resume)

\* C19 as stated: every run that has ended has ended by returning its
\* report, with the connections registered and the registry marked.
C19_EveryEndedRunReturned ==
    \A r \in Runs :
        Finished(r) =>
            /\ pc[r] = "returned"
            /\ connections = StandardConnections
            /\ initialized

\* C19, state part: a run ends by the provider's error only before its loop,
\* with nothing recorded; a run that returned has a report that is complete,
\* or that stops at a failed critical name, and the connections are
\* registered and the registry marked.
C19_EndedRuns ==
    \A r \in Runs :
        /\ pc[r] = "raised" =>
              /\ outcome[r] = "ConnectionError"
              /\ i[r] = 0
              /\ results[r] = EmptyDict
        /\ pc[r] = "returned" =>
              /\ \/ DOMAIN results[r] = OrderNames /\ i[r] = OrderLen
                 \/ FailedCriticals(r) # {} /\ DOMAIN results[r] = Prefix(i[r])
              /\ connections = StandardConnections
              /\ initialized

\* C19, step part: each name is attempted at most once: the position moves
\* from a name to the next one only, by the step that records its outcome,
\* and an attempt starts only for a name with no outcome yet.
C19_OneAttemptPerName ==
    \A r \in Runs :
        /\ i'[r] # i[r] =>
              /\ i'[r] = i[r] + 1
              /\ pc[r] \in {"idle", "db_await", "handle"}
              /\ pc'[r] = "loop"
        /\ (pc[r] = "loop" /\ pc'[r] # "loop") =>
              /\ initialization_order[i[r]] \notin DOMAIN results[r]
              /\ pc'[r] \in {"readiness", "handle"}
        /\ (pc[r] = "handle" /\ pc'[r] = "loop") => i'[r] = i[r] + 1

\* C19 (amended): the provider's initialization, the constructors and the
\* readiness step terminating, every started run eventually ends: by raising
\* the provider's error before any name is attempted, or else, after at most
\* one attempt per name of the order, as completed or aborted, with the
\* connections registered, the registry marked initialized and the report
\* returned.
C19_EveryRunEnds ==
    /\ [] C19_EndedRuns
    /\ [][C19_OneAttemptPerName]_vars
    /\ \A r \in Runs : (pc[r] # "idle") ~> Finished(r)

\* A second run ended by aborting on a critical name after the first run had
\* ended by the provider's error.
C19_Witness ==
    /\ pc[1] = "raised"
    /\ pc[2] = "returned"
    /\ IsFailed(Entry(2, "trading_engine"))
    /\ DOMAIN results[2] = Prefix(Position("trading_engine"))
    /\ initialized

====
